---------------------------- MODULE Spec2Model ----------------------------
(***************************************************************************)
(* Model of the two maintenance scripts of the site:                       *)
(*   bin/update_scholar_bibliography.py  (bibliography sync)               *)
(*   bin/update_repositories.py          (repository metadata sync)        *)
(*                                                                         *)
(* Python strings are modelled as sequences of one-character strings, so   *)
(* that slugify, strip, split, lower, int() and f-string formatting are    *)
(* computed character by character.  A field that is absent, None or ""    *)
(* is the empty sequence: the scripts only ever test such fields for       *)
(* truthiness (bib.get(k) or default), so the three behave alike.          *)
(***************************************************************************)
EXTENDS Integers, Sequences, FiniteSets, TLC

VARIABLES
    \* ---- bibliography sync (update_scholar_bibliography.py) ----
    bib_pc,          \* position of main: start, fill, merge, build, exit0, exit1
    manual_file,     \* _bibliography/manual_overrides.bib
    profile_ok,      \* the author profile was retrieved (lines 28-29)
    author_pubs,     \* author["publications"]
    fill_ok,         \* outcome of scholarly.fill(pub) for each stub tried
    fetched,         \* the list fetch_publications builds and returns
    publications,    \* main's list, sorted in place
    manual_keys,
    manual_text,
    existing_keys,
    auto_entries,
    skipped,
    biblio_file,     \* _bibliography/papers.bib
    \* ---- repository sync (update_repositories.py) ----
    repo_pc,         \* position of main: idle (no process), resolve, fetch, exited
    data_file,       \* _data/repositories.yml
    upstream,        \* what the GitHub API answers
    data,            \* main's data: the document load_data returned
    resolved,        \* resolve_repositories' list, then main's repos
    list_log,        \* the calls of fetch_user_repositories of this run
    metadata,        \* main's metadata list
    fetch_log,       \* the calls of fetch_repo of this run
    last_exit,       \* exit status of the run: none, 0, 1
    wrote,           \* the run called write_data
    stable,          \* a run has completed and upstream is as it was then
    run_stable       \* stable, as it was when the run started

bib_vars == <<bib_pc, manual_file, profile_ok, author_pubs, fill_ok, fetched,
              publications, manual_keys, manual_text, existing_keys,
              auto_entries, skipped, biblio_file>>

repo_vars == <<repo_pc, data_file, upstream, data, resolved, list_log, metadata,
               fetch_log, last_exit, wrote, stable, run_stable>>

vars == <<bib_vars, repo_vars>>

-----------------------------------------------------------------------------
(* Characters *)

LowerChars == <<"a","b","c","d","e","f","g","h","i","j","k","l","m",
                "n","o","p","q","r","s","t","u","v","w","x","y","z">>
UpperChars == <<"A","B","C","D","E","F","G","H","I","J","K","L","M",
                "N","O","P","Q","R","S","T","U","V","W","X","Y","Z">>
DigitChars == <<"0","1","2","3","4","5","6","7","8","9">>

Range(s) == {s[i] : i \in 1..Len(s)}

IndexOf(c, s) == CHOOSE i \in 1..Len(s) : s[i] = c

IsLower(c) == c \in Range(LowerChars)
IsUpper(c) == c \in Range(UpperChars)
IsDigit(c) == c \in Range(DigitChars)
IsAlnum(c) == IsLower(c) \/ IsUpper(c) \/ IsDigit(c)
IsSpace(c) == c = " " \/ c = "\n"

\* "COMB" stands for U+0301 (combining acute accent), "é" for U+00E9.
IsCombining(c) == c = "COMB"

\* str.lower() on one character
LowerChar(c) == IF IsUpper(c) THEN LowerChars[IndexOf(c, UpperChars)] ELSE c

\* Unicode code point of a character (Python compares str by code point)
Code(c) ==
    IF IsDigit(c) THEN 47 + IndexOf(c, DigitChars)
    ELSE IF IsUpper(c) THEN 64 + IndexOf(c, UpperChars)
    ELSE IF IsLower(c) THEN 96 + IndexOf(c, LowerChars)
    ELSE IF c = " " THEN 32
    ELSE IF c = "-" THEN 45
    ELSE IF c = "." THEN 46
    ELSE IF c = "é" THEN 233
    ELSE 769

-----------------------------------------------------------------------------
(* String helpers *)

RECURSIVE LStrip(_)
LStrip(s) == IF s # <<>> /\ IsSpace(Head(s)) THEN LStrip(Tail(s)) ELSE s

RECURSIVE RStrip(_)
RStrip(s) ==
    IF s # <<>> /\ IsSpace(s[Len(s)]) THEN RStrip(SubSeq(s, 1, Len(s) - 1)) ELSE s

\* str.strip()
Strip(s) == RStrip(LStrip(s))

\* str.lower()
LowerStr(s) == [i \in 1..Len(s) |-> LowerChar(s[i])]

\* s < t for Python str
RECURSIVE StrLess(_, _)
StrLess(s, t) ==
    IF t = <<>> THEN FALSE
    ELSE IF s = <<>> THEN TRUE
    ELSE IF Code(Head(s)) # Code(Head(t)) THEN Code(Head(s)) < Code(Head(t))
    ELSE StrLess(Tail(s), Tail(t))

\* needle occurs in s starting at position i
OccursAt(needle, s, i) ==
    /\ i + Len(needle) - 1 <= Len(s)
    /\ SubSeq(s, i, i + Len(needle) - 1) = needle

\* needle in s
Contains(needle, s) == \E i \in 1..(Len(s) + 1) : OccursAt(needle, s, i)

\* f"{n}" for an int n >= 0
RECURSIVE IntToStr(_)
IntToStr(n) ==
    IF n < 10 THEN <<DigitChars[n + 1]>>
    ELSE IntToStr(n \div 10) \o <<DigitChars[(n % 10) + 1]>>

RECURSIVE DigitsValue(_)
DigitsValue(s) ==
    IF s = <<>> THEN 0
    ELSE 10 * DigitsValue(SubSeq(s, 1, Len(s) - 1)) + (IndexOf(s[Len(s)], DigitChars) - 1)

AllDigits(s) == s # <<>> /\ \A i \in 1..Len(s) : IsDigit(s[i])


\* position of the first occurrence of needle in s, 0 when there is none
FirstOccurrence(needle, s) ==
    IF Contains(needle, s)
    THEN CHOOSE i \in 1..(Len(s) + 1) :
            /\ OccursAt(needle, s, i)
            /\ \A j \in 1..(i - 1) : ~OccursAt(needle, s, j)
    ELSE 0

\* s.split(sep)[0]
SplitFirst(s, sep) ==
    IF FirstOccurrence(sep, s) = 0 THEN s
    ELSE SubSeq(s, 1, FirstOccurrence(sep, s) - 1)

\* s.split()[-1] for a string with at least one non-space character
RECURSIVE LastToken(_)
LastToken(s) ==
    IF s = <<>> \/ IsSpace(s[Len(s)]) THEN <<>>
    ELSE LastToken(SubSeq(s, 1, Len(s) - 1)) \o <<s[Len(s)]>>

-----------------------------------------------------------------------------
(* update_scholar_bibliography.py: pure functions *)

\* unicodedata.normalize("NFKD", text), on the characters of the model
RECURSIVE NFKD(_)
NFKD(s) ==
    IF s = <<>> THEN <<>>
    ELSE (IF Head(s) = "é" THEN <<"e", "COMB">> ELSE <<Head(s)>>) \o NFKD(Tail(s))

RECURSIVE DropCombining(_)
DropCombining(s) ==
    IF s = <<>> THEN <<>>
    ELSE (IF IsCombining(Head(s)) THEN <<>> ELSE <<Head(s)>>) \o DropCombining(Tail(s))

RECURSIVE DropNonAlnumRun(_)
DropNonAlnumRun(s) ==
    IF s # <<>> /\ ~IsAlnum(Head(s)) THEN DropNonAlnumRun(Tail(s)) ELSE s

\* re.sub(r"[^A-Za-z0-9]+", "-", s)
RECURSIVE SubNonAlnum(_)
SubNonAlnum(s) ==
    IF s = <<>> THEN <<>>
    ELSE IF IsAlnum(Head(s)) THEN <<Head(s)>> \o SubNonAlnum(Tail(s))
    ELSE <<"-">> \o SubNonAlnum(DropNonAlnumRun(s))

RECURSIVE LStripDash(_)
LStripDash(s) == IF s # <<>> /\ Head(s) = "-" THEN LStripDash(Tail(s)) ELSE s

RECURSIVE RStripDash(_)
RStripDash(s) ==
    IF s # <<>> /\ s[Len(s)] = "-" THEN RStripDash(SubSeq(s, 1, Len(s) - 1)) ELSE s

slugify(text) ==
    LET ascii_text == RStripDash(LStripDash(SubNonAlnum(DropCombining(NFKD(text)))))
    IN  IF LowerStr(ascii_text) # <<>> THEN LowerStr(ascii_text)
        ELSE <<"p","u","b","l","i","c","a","t","i","o","n">>

\* the while loop of unique_key, entered with the current key and index
RECURSIVE UniqueKeyLoop(_, _, _, _)
UniqueKeyLoop(base, key, index, existing_set) ==
    IF key \in existing_set
    THEN UniqueKeyLoop(base, base \o <<"-">> \o IntToStr(index), index + 1, existing_set)
    ELSE key

\* a loop that stops after one suffix, whether or not the key is free
UniqueKeyOnce(base, existing) ==
    IF base \in Range(existing) THEN base \o <<"-", "2">> ELSE base

\* a loop whose counter starts at 1
UniqueKeyFromOne(base, existing) == UniqueKeyLoop(base, base, 1, Range(existing))

unique_key(base, existing) == UniqueKeyLoop(base, base, 2, Range(existing))

\* classification that looks at booktitle before journal
EntryTypeBooktitleFirst(bib) ==
    IF bib.booktitle # <<>> THEN "inproceedings"
    ELSE IF bib.journal # <<>> THEN "article"
    ELSE IF Contains(<<"t","h","e","s","i","s">>, LowerStr(bib.citation)) THEN "phdthesis"
    ELSE "misc"

determine_entry_type(bib) ==
    IF bib.journal # <<>> THEN "article"
    ELSE IF bib.booktitle # <<>> THEN "inproceedings"
    ELSE IF Contains(<<"t","h","e","s","i","s">>, LowerStr(bib.citation)) THEN "phdthesis"
    ELSE "misc"

\* re.sub(r"\s+", " ", s)
RECURSIVE CollapseSpaces(_)
CollapseSpaces(s) ==
    IF s = <<>> THEN <<>>
    ELSE IF IsSpace(Head(s)) THEN <<" ">> \o CollapseSpaces(LStrip(s))
    ELSE <<Head(s)>> \o CollapseSpaces(Tail(s))

sanitize(value) == CollapseSpaces(Strip(value))

\* int(value) or 0: optional surrounding whitespace, optional "-", digits
parse_year(value) ==
    LET t == Strip(value)
    IN  IF AllDigits(t) THEN DigitsValue(t)
        ELSE IF t # <<>> /\ Head(t) = "-" /\ AllDigits(Tail(t)) THEN 0 - DigitsValue(Tail(t))
        ELSE 0

OrDefault(value, default) == IF value # <<>> THEN value ELSE default

\* base_key of build_bibtex_entry (lines 94-102)
BaseKey(pub) ==
    LET year    == OrDefault(pub.pub_year, <<"n", ".", "d", ".">>)
        authors == OrDefault(pub.author, <<"U","n","k","n","o","w","n">>)
        first_author_block == Strip(SplitFirst(authors, <<" ","a","n","d"," ">>))
        first_author_last ==
            IF first_author_block # <<>> THEN LastToken(first_author_block)
            ELSE <<"p","u","b","l","i","c","a","t","i","o","n">>
    IN  slugify(first_author_last \o <<"-">> \o year)

\* the formatted fields of an entry (lines 106-132): name and sanitized value
EntryFields(pub, entry_type) ==
    LET fields == <<
            <<"author", OrDefault(pub.author, <<"U","n","k","n","o","w","n">>)>>,
            <<"title", OrDefault(pub.title, <<"U","n","t","i","t","l","e","d">>)>>,
            <<"journal", pub.journal>>,
            <<"booktitle", pub.booktitle>>,
            <<"publisher", pub.publisher>>,
            <<"volume", pub.volume>>,
            <<"number", pub.number>>,
            <<"pages", pub.pages>>,
            <<"year", OrDefault(pub.pub_year, <<"n", ".", "d", ".">>)>>,
            <<"abstract", pub.abstract>>,
            <<"url", OrDefault(pub.pub_url, pub.url)>>,
            <<"bibtex_show", <<"t","r","u","e">> >> >>
        NotBooktitle(f) == f[1] # "booktitle"
        NotJournal(f)   == f[1] # "journal"
        HasValue(f)     == f[2] # <<>>
        kept == IF entry_type = "article" THEN SelectSeq(fields, NotBooktitle)
                ELSE IF entry_type = "inproceedings" THEN SelectSeq(fields, NotJournal)
                ELSE fields
        shown == SelectSeq(kept, HasValue)
    IN  [i \in 1..Len(shown) |-> <<shown[i][1], sanitize(shown[i][2])>>]

\* build_bibtex_entry: the (key, entry) pair; the caller's list grows by key
build_bibtex_entry(pub, existing) ==
    LET key == unique_key(BaseKey(pub), existing)
        entry_type == determine_entry_type(pub)
    IN  [key |-> key,
         entry |-> [type |-> entry_type, key |-> key,
                    fields |-> EntryFields(pub, entry_type)]]


\* the sort key of main (lines 196-202): a < b
SortKeyLess(a, b) ==
    \/ parse_year(a.pub_year) < parse_year(b.pub_year)
    \/ /\ parse_year(a.pub_year) = parse_year(b.pub_year)
       /\ StrLess(a.title, b.title)

\* position at which x enters a list sorted in descending order: before the
\* first element smaller than x, after every element equal to it (stable)
InsertPos(sorted, x) ==
    IF \E i \in 1..Len(sorted) : SortKeyLess(sorted[i], x)
    THEN CHOOSE i \in 1..Len(sorted) :
            /\ SortKeyLess(sorted[i], x)
            /\ \A j \in 1..(i - 1) : ~SortKeyLess(sorted[j], x)
    ELSE Len(sorted) + 1

RECURSIVE SortDescending(_)
SortDescending(pubs) ==
    IF pubs = <<>> THEN <<>>
    ELSE LET rest == SortDescending(SubSeq(pubs, 1, Len(pubs) - 1))
             x    == pubs[Len(pubs)]
             p    == InsertPos(rest, x)
         IN  SubSeq(rest, 1, p - 1) \o <<x>> \o SubSeq(rest, p, Len(rest))

IsWordChar(c) == IsAlnum(c) \/ c = "_"

\* length of the longest run of characters satisfying the class, from position i
RECURSIVE WordRun(_, _)
WordRun(s, i) ==
    IF i <= Len(s) /\ IsWordChar(s[i]) THEN 1 + WordRun(s, i + 1) ELSE 0

RECURSIVE NonCommaRun(_, _)
NonCommaRun(s, i) ==
    IF i <= Len(s) /\ s[i] # "," THEN 1 + NonCommaRun(s, i + 1) ELSE 0

\* re.match(r"@\w+\{([^,]+),", s, pos=i): 0 when there is no match at i,
\* else the position of the closing comma.  Both runs are maximal: the
\* character after \w+ must be "{", which is no word character, and the
\* one after [^,]+ must be ",".
MatchEnd(s, i) ==
    LET w == WordRun(s, i + 1)
        b == i + 1 + w
        k == NonCommaRun(s, b + 1)
        c == b + 1 + k
    IN  IF /\ i <= Len(s) /\ s[i] = "@"
           /\ w >= 1
           /\ b <= Len(s) /\ s[b] = "{"
           /\ k >= 1
           /\ c <= Len(s) /\ s[c] = ","
        THEN c ELSE 0

\* the keys of re.finditer from position i on: group(1).strip() of each match
RECURSIVE FindKeys(_, _)
FindKeys(s, i) ==
    IF i > Len(s) THEN {}
    ELSE IF MatchEnd(s, i) = 0 THEN FindKeys(s, i + 1)
    ELSE LET b == i + 1 + WordRun(s, i + 1)
         IN  {Strip(SubSeq(s, b + 1, MatchEnd(s, i) - 1))} \cup FindKeys(s, MatchEnd(s, i) + 1)

\* load_manual_overrides: file is [exists, text]
load_manual_overrides(file) ==
    IF ~file.exists THEN [manual_keys |-> {}, manual_text |-> <<>>]
    ELSE IF Strip(file.text) = <<>> THEN [manual_keys |-> {}, manual_text |-> <<>>]
    ELSE [manual_keys |-> FindKeys(Strip(file.text), 1),
          manual_text |-> Strip(file.text) \o <<"\n">>]

-----------------------------------------------------------------------------
(* Inputs of the bibliography sync *)

\* number of publications of the author profile
MaxPubs == 3

Pub1 ==
    [author |-> <<"E"," ","L","é"," ","a","n","d"," ","B"," ","W","u">>,
     title |-> <<"B">>,
     pub_year |-> <<>>,
     journal |-> <<"J">>,
     booktitle |-> <<"C","o","n","f">>,
     publisher |-> <<>>,
     volume |-> <<>>,
     number |-> <<>>,
     pages |-> <<>>,
     abstract |-> <<>>,
     url |-> <<>>,
     citation |-> <<>>,
     pub_url |-> <<"u">>]

Pub2 ==
    [author |-> <<"C"," ","L","e">>,
     title |-> <<"A">>,
     pub_year |-> <<>>,
     journal |-> <<>>,
     booktitle |-> <<" ","C","o","n","f"," "," ","X">>,
     publisher |-> <<>>,
     volume |-> <<>>,
     number |-> <<>>,
     pages |-> <<"1"," ","-"," "," ","9">>,
     abstract |-> <<>>,
     url |-> <<"v">>,
     citation |-> <<>>,
     pub_url |-> <<>>]

Pub3 ==
    [author |-> <<"L","e">>,
     title |-> <<>>,
     pub_year |-> <<>>,
     journal |-> <<>>,
     booktitle |-> <<>>,
     publisher |-> <<>>,
     volume |-> <<>>,
     number |-> <<>>,
     pages |-> <<>>,
     abstract |-> <<>>,
     url |-> <<>>,
     citation |-> <<"P","h","D"," ","T","h","e","s","i","s">>,
     pub_url |-> <<>>]

Pub4 ==
    [author |-> <<" ","F"," "," ","L","e"," ">>,
     title |-> <<"D">>,
     pub_year |-> <<"n",".","d","."," ","2">>,
     journal |-> <<" ">>,
     booktitle |-> <<>>,
     publisher |-> <<>>,
     volume |-> <<>>,
     number |-> <<>>,
     pages |-> <<>>,
     abstract |-> <<>>,
     url |-> <<>>,
     citation |-> <<"t","h","e","s","e">>,
     pub_url |-> <<>>]

Pub5 ==
    [author |-> <<"A"," ","L","i">>,
     title |-> <<"C">>,
     pub_year |-> <<" ","2","0","2","0">>,
     journal |-> <<>>,
     booktitle |-> <<>>,
     publisher |-> <<>>,
     volume |-> <<>>,
     number |-> <<>>,
     pages |-> <<>>,
     abstract |-> <<>>,
     url |-> <<>>,
     citation |-> <<>>,
     pub_url |-> <<>>]

Pubs == {Pub1, Pub2, Pub3, Pub4, Pub5}

\* author profiles: up to MaxPubs publication stubs, each listed once
Profiles ==
    UNION {{p \in [1..n -> Pubs] : \A i, j \in 1..n : i # j => p[i] # p[j]} :
              n \in 0..MaxPubs}

\* _bibliography/manual_overrides.bib
ManualFiles == {
    [exists |-> FALSE, text |-> <<>>],
    [exists |-> TRUE, text |-> <<" ","\n">>],
    [exists |-> TRUE, text |-> <<"%"," ","@","x",","," ","{">>],
    [exists |-> TRUE, text |-> <<"@","a","{","l","e","-","n","-","d",",","}","\n">>],
    [exists |-> TRUE, text |-> <<"@","b","{"," ","l","e","-","n","-","d","-","2"," ",",","t","}","@","c","{","l","i","-","2","0","2","0",",">>] }

\* _data/socials.yml as load_scholar_user_id sees it
Configs == {"missing", "unparsable", "no_userid", "ok"}


-----------------------------------------------------------------------------
(* Bibliography sync: main of update_scholar_bibliography.py *)

NoBiblioFile == [exists |-> FALSE, entries |-> <<>>, manual |-> <<>>]

BibInit ==
    /\ bib_pc = "start"
    /\ manual_file \in ManualFiles
    /\ profile_ok = FALSE
    /\ author_pubs = <<>>
    /\ fill_ok = <<>>
    /\ fetched = <<>>
    /\ publications = <<>>
    /\ manual_keys = {}
    /\ manual_text = <<>>
    /\ existing_keys = <<>>
    /\ auto_entries = <<>>
    /\ skipped = 0
    /\ biblio_file = NoBiblioFile

\* load_scholar_user_id exits: no file, bad YAML or no scholar_userid
LoadConfigFail ==
    /\ bib_pc = "start"
    /\ \E config \in Configs \ {"ok"} : bib_pc' = "exit1"
    /\ UNCHANGED <<manual_file, profile_ok, author_pubs, fill_ok, fetched,
                   publications, manual_keys, manual_text, existing_keys,
                   auto_entries, skipped, biblio_file>>

\* fetch_publications, lines 27-32: the profile cannot be retrieved
FetchAuthorFail ==
    /\ bib_pc = "start"
    /\ bib_pc' = "exit1"
    /\ UNCHANGED <<manual_file, profile_ok, author_pubs, fill_ok, fetched,
                   publications, manual_keys, manual_text, existing_keys,
                   auto_entries, skipped, biblio_file>>

\* fetch_publications, lines 27-29 and 34: the profile is retrieved
FetchAuthor ==
    /\ bib_pc = "start"
    /\ \E profile \in Profiles : author_pubs' = profile
    /\ profile_ok' = TRUE
    /\ bib_pc' = "fill"
    /\ UNCHANGED <<manual_file, fill_ok, fetched, publications, manual_keys,
                   manual_text, existing_keys, auto_entries, skipped, biblio_file>>

\* one iteration of the loop of lines 35-40 whose fill succeeds
FillPubOk ==
    /\ bib_pc = "fill"
    /\ Len(fill_ok) < Len(author_pubs)
    /\ fetched' = Append(fetched, author_pubs[Len(fill_ok) + 1])
    /\ fill_ok' = Append(fill_ok, TRUE)
    /\ UNCHANGED <<bib_pc, manual_file, profile_ok, author_pubs, publications,
                   manual_keys, manual_text, existing_keys, auto_entries,
                   skipped, biblio_file>>

\* a failing fill that ends the run
FillPubFailFatal ==
    /\ bib_pc = "fill"
    /\ Len(fill_ok) < Len(author_pubs)
    /\ fill_ok' = Append(fill_ok, FALSE)
    /\ bib_pc' = "exit1"
    /\ UNCHANGED <<manual_file, profile_ok, author_pubs, fetched, publications,
                   manual_keys, manual_text, existing_keys, auto_entries,
                   skipped, biblio_file>>

\* one iteration of the loop of lines 35-40 whose fill raises: a warning
FillPubFail ==
    /\ bib_pc = "fill"
    /\ Len(fill_ok) < Len(author_pubs)
    /\ fill_ok' = Append(fill_ok, FALSE)
    /\ UNCHANGED <<bib_pc, manual_file, profile_ok, author_pubs, fetched,
                   publications, manual_keys, manual_text, existing_keys,
                   auto_entries, skipped, biblio_file>>

\* lines 42-44: nothing was retrieved
NoPublications ==
    /\ bib_pc = "fill"
    /\ Len(fill_ok) = Len(author_pubs)
    /\ fetched = <<>>
    /\ bib_pc' = "exit1"
    /\ UNCHANGED <<manual_file, profile_ok, author_pubs, fill_ok, fetched,
                   publications, manual_keys, manual_text, existing_keys,
                   auto_entries, skipped, biblio_file>>

\* line 46 and main line 186: fetch_publications returns
ReturnPublications ==
    /\ bib_pc = "fill"
    /\ Len(fill_ok) = Len(author_pubs)
    /\ fetched # <<>>
    /\ publications' = fetched
    /\ bib_pc' = "merge"
    /\ UNCHANGED <<manual_file, profile_ok, author_pubs, fill_ok, fetched,
                   manual_keys, manual_text, existing_keys, auto_entries,
                   skipped, biblio_file>>

\* main, lines 188-204: manual overrides are read, the list is sorted
LoadManualAndSort ==
    /\ bib_pc = "merge"
    /\ manual_keys' = load_manual_overrides(manual_file).manual_keys
    /\ manual_text' = load_manual_overrides(manual_file).manual_text
    /\ publications' = SortDescending(publications)
    /\ existing_keys' = <<>>
    /\ bib_pc' = "build"
    /\ UNCHANGED <<manual_file, profile_ok, author_pubs, fill_ok, fetched,
                   auto_entries, skipped, biblio_file>>

\* main, line 205: one element of the list comprehension
BuildEntry ==
    /\ bib_pc = "build"
    /\ Len(auto_entries) < Len(publications)
    /\ LET built == build_bibtex_entry(publications[Len(auto_entries) + 1], existing_keys)
       IN  /\ existing_keys' = Append(existing_keys, built.key)
           /\ auto_entries' = Append(auto_entries, built)
    /\ UNCHANGED <<bib_pc, manual_file, profile_ok, author_pubs, fill_ok, fetched,
                   publications, manual_keys, manual_text, skipped, biblio_file>>

\* a merge that keeps every auto-generated entry
FilterEntriesKeepAll(entries, keys) == [i \in 1..Len(entries) |-> entries[i].entry]

\* main, lines 207-209
FilterEntries(entries, keys) ==
    LET NotManual(e) == e.key \notin keys
        kept == SelectSeq(entries, NotManual)
    IN  [i \in 1..Len(kept) |-> kept[i].entry]

\* rstrip of manual_text (line 171)
write_bibtex(entries, text) ==
    [exists |-> TRUE, entries |-> entries, manual |-> RStrip(text)]

\* main, lines 207-215: filter, count, write
FilterAndWrite ==
    /\ bib_pc = "build"
    /\ Len(auto_entries) = Len(publications)
    /\ LET filtered_entries == FilterEntries(auto_entries, manual_keys)
       IN  /\ skipped' = Len(auto_entries) - Len(filtered_entries)
           /\ biblio_file' = write_bibtex(filtered_entries, manual_text)
    /\ bib_pc' = "exit0"
    /\ UNCHANGED <<manual_file, profile_ok, author_pubs, fill_ok, fetched,
                   publications, manual_keys, manual_text, existing_keys,
                   auto_entries>>

BibNext ==
    \/ LoadConfigFail /\ UNCHANGED repo_vars
    \/ FetchAuthorFail /\ UNCHANGED repo_vars
    \/ FetchAuthor /\ UNCHANGED repo_vars
    \/ FillPubOk /\ UNCHANGED repo_vars
    \/ FillPubFail /\ UNCHANGED repo_vars
    \/ NoPublications /\ UNCHANGED repo_vars
    \/ ReturnPublications /\ UNCHANGED repo_vars
    \/ LoadManualAndSort /\ UNCHANGED repo_vars
    \/ BuildEntry /\ UNCHANGED repo_vars
    \/ FilterAndWrite /\ UNCHANGED repo_vars




-----------------------------------------------------------------------------
(* update_repositories.py: documents and pure functions *)

REPOS_PER_PAGE == 100

\* A YAML mapping is a sequence of <<key, value>> pairs with distinct keys,
\* in the order of the file (a Python dict keeps insertion order).
Keys(doc) == [i \in 1..Len(doc) |-> doc[i][1]]

Has(doc, key) == \E i \in 1..Len(doc) : doc[i][1] = key

\* doc[key]
Get(doc, key) == doc[CHOOSE i \in 1..Len(doc) : doc[i][1] = key][2]

\* doc.get(key, default)
GetOr(doc, key, default) == IF Has(doc, key) THEN Get(doc, key) ELSE default

\* s.split("/")[-1]
RECURSIVE LastPathPart(_)
LastPathPart(s) ==
    IF s = <<>> \/ s[Len(s)] = "/" THEN <<>>
    ELSE LastPathPart(SubSeq(s, 1, Len(s) - 1)) \o <<s[Len(s)]>>

\* fetch_repo (lines 64-90): response is what GET /repos/{slug} answers
fetch_repo(slug, responses) ==
    LET s == Strip(slug)
        response == responses[s]
        payload == response.payload
    IN  IF s = <<>> THEN [ok |-> FALSE, error |-> "ValueError", repo |-> <<>>]
        ELSE IF response.status = 404
        THEN [ok |-> FALSE, error |-> "RuntimeError404", repo |-> <<>>]
        ELSE IF response.status >= 400
        THEN [ok |-> FALSE, error |-> "RuntimeErrorHTTP", repo |-> <<>>]
        ELSE [ok |-> TRUE, error |-> "",
              repo |-> [slug |-> s,
                        name |-> OrDefault(payload.name, LastPathPart(s)),
                        description |-> payload.description,
                        keywords |-> payload.topics,
                        homepage |-> payload.homepage,
                        language |-> payload.language,
                        stars |-> payload.stargazers_count,
                        updated |-> payload.updated_at]]

ManagedKeys == {"github_users", "repo_description_lines_max", "github_repos",
                "github_repos_metadata"}

\* a writer that keeps only the keys it manages
WriteDataManagedOnly(raw_data, new_metadata, repos) ==
    << <<"github_users", GetOr(raw_data, "github_users", <<>>)>>,
       <<"repo_description_lines_max", GetOr(raw_data, "repo_description_lines_max", 2)>>,
       <<"github_repos", repos>>,
       <<"github_repos_metadata", new_metadata>> >>

\* write_data (lines 93-109): the document dumped to the file
write_data(raw_data, new_metadata, repos) ==
    LET Unmanaged(pair) == pair[1] \notin ManagedKeys
    IN  << <<"github_users", GetOr(raw_data, "github_users", <<>>)>>,
           <<"repo_description_lines_max", GetOr(raw_data, "repo_description_lines_max", 2)>>,
           <<"github_repos", repos>>,
           <<"github_repos_metadata", new_metadata>> >>
        \o SelectSeq(raw_data, Unmanaged)

\* page number `page` of GET /users/{username}/repos: past the last page the
\* API answers 200 with an empty list
PageOf(listing, page) ==
    IF page <= Len(listing) THEN listing[page]
    ELSE [status |-> 200, n |-> 0, names |-> <<>>]

\* the while loop of fetch_user_repositories (lines 119-143) from `page` on
RECURSIVE ListPages(_, _, _)
ListPages(listing, page, slugs) ==
    LET response == PageOf(listing, page)
    IN  IF response.status = 404 THEN [ok |-> FALSE, slugs |-> <<>>]
        ELSE IF response.status >= 400 THEN [ok |-> FALSE, slugs |-> <<>>]
        ELSE IF response.n = 0 THEN [ok |-> TRUE, slugs |-> slugs]
        ELSE IF response.n < REPOS_PER_PAGE
        THEN [ok |-> TRUE, slugs |-> slugs \o response.names]
        ELSE ListPages(listing, page + 1, slugs \o response.names)

\* fetch_user_repositories (lines 112-146); printed is whether the
\* "Discovered N repos" line is printed, N being Len(slugs)
fetch_user_repositories(user, listings) ==
    IF Strip(user) = <<>> THEN [ok |-> TRUE, slugs |-> <<>>, printed |-> FALSE]
    ELSE LET r == ListPages(listings[Strip(user)], 1, <<>>)
         IN  [ok |-> r.ok, slugs |-> r.slugs, printed |-> r.ok]

\* a resolver that forgets the stored list
ManualReposNone(doc) == <<>>

\* resolve_repositories, line 152
ManualRepos(doc) ==
    LET NonEmpty(slug) == slug # <<>>
    IN  SelectSeq(GetOr(doc, "github_repos", <<>>), NonEmpty)

\* resolve_repositories, lines 159-162: the new slugs join the list once
RECURSIVE AddUnseen(_, _)
AddUnseen(list, slugs) ==
    IF slugs = <<>> THEN list
    ELSE AddUnseen(IF Head(slugs) \in Range(list) THEN list ELSE Append(list, Head(slugs)),
                   Tail(slugs))

\* a comparison that never finds the file up to date
UpToDateNever(doc, new_metadata, repos) == FALSE

\* main, lines 192-195
UpToDate(doc, new_metadata, repos) ==
    /\ Has(doc, "github_repos_metadata")
    /\ Get(doc, "github_repos_metadata") = new_metadata
    /\ Has(doc, "github_repos")
    /\ Get(doc, "github_repos") = repos

-----------------------------------------------------------------------------
(* Inputs of the repository sync *)

UserU == <<"u">>
UserV == <<"v">>
UserNames == {UserU, UserV}

SlugUA == <<"u","/","a">>
SlugUB == <<"u","/","b">>
SlugVA == <<"v","/","a">>
FullNames == {SlugUA, SlugUB, SlugVA}

Page(count, names) == [status |-> 200, n |-> count, names |-> names]
ErrorPage(code) == [status |-> code, n |-> 0, names |-> <<>>]

\* what GET /users/u/repos answers, page by page; a page of REPOS_PER_PAGE
\* entries lists only the full names it has
ListingsU == {
    <<>>,
    <<Page(1, <<SlugUA>>)>>,
    <<Page(1, <<SlugUB>>)>>,
    <<Page(2, <<SlugUB, SlugUA>>)>>,
    <<Page(REPOS_PER_PAGE, <<SlugUB>>), Page(1, <<SlugUA>>)>>,
    <<Page(REPOS_PER_PAGE, <<SlugUA>>), ErrorPage(500)>>,
    <<ErrorPage(404)>> }

ListingsV == {
    <<>>,
    <<Page(2, <<SlugVA, SlugVA>>)>> }

ListingsOf(user) == IF user = UserU THEN ListingsU ELSE ListingsV

PayloadFull ==
    [name |-> <<"A">>, description |-> <<"d">>, topics |-> << <<"t">> >>,
     homepage |-> <<"h">>, language |-> <<"P","y">>, stargazers_count |-> 3,
     updated_at |-> << <<"2","0","2","4">> >>]

\* every optional field null or absent; updated_at None is the empty tuple
PayloadNull ==
    [name |-> <<>>, description |-> <<>>, topics |-> <<>>,
     homepage |-> <<>>, language |-> <<>>, stargazers_count |-> 0,
     updated_at |-> <<>>]

Ok(payload) == [status |-> 200, payload |-> payload]
Fail(code) == [status |-> code, payload |-> PayloadNull]

\* what GET /repos/{slug} answers
ResponsesOf(slug) ==
    IF slug = SlugUA THEN {Ok(PayloadFull), Ok(PayloadNull), Fail(404), Fail(500)}
    ELSE {Ok(PayloadFull), Fail(404)}

Upstreams ==
    {[listings |-> l, repos |-> r] :
        l \in {f \in [UserNames -> ListingsU \cup ListingsV] :
                  \A user \in UserNames : f[user] \in ListingsOf(user)},
        r \in {g \in [FullNames -> UNION {ResponsesOf(n) : n \in FullNames}] :
                  \A n \in FullNames : g[n] \in ResponsesOf(n)}}

FileCanonical ==
    << <<"github_users", <<UserU>> >>,
       <<"repo_description_lines_max", 3>>,
       <<"github_repos", <<>> >>,
       <<"github_repos_metadata", <<>> >> >>

FileHandWritten ==
    << <<"title", <<"x">> >>,
       <<"github_repos", << <<>>, <<" ","u","/","b">> >> >>,
       <<"github_users", << <<" ">>, UserU, UserV >> >>,
       <<"note", <<"y">> >> >>

FileUsersOnly == << <<"github_users", <<UserV, UserU>> >> >>

FileBlankSlug ==
    << <<"github_repos", <<SlugUA, <<" ">> >> >>,
       <<"repo_description_lines_max", 1>> >>

\* _data/repositories.yml before the first run
InitialFiles ==
    {[state |-> "ok", doc |-> d] :
        d \in {FileCanonical, FileHandWritten, FileUsersOnly, FileBlankSlug, <<>>}}
    \cup {[state |-> st, doc |-> <<>>] : st \in {"missing", "empty", "unparsable"}}

-----------------------------------------------------------------------------
(* Repository sync: main of update_repositories.py *)

RepoInit ==
    /\ repo_pc = "idle"
    /\ data_file \in InitialFiles
    /\ upstream \in Upstreams
    /\ data = <<>>
    /\ resolved = <<>>
    /\ list_log = <<>>
    /\ metadata = <<>>
    /\ fetch_log = <<>>
    /\ last_exit = "none"
    /\ wrote = FALSE
    /\ stable = FALSE
    /\ run_stable = FALSE

\* data.get("github_users", []) or []
Users(doc) == GetOr(doc, "github_users", <<>>)

\* load_data exits (lines 22-37): no file, empty file, YAML error
LoadDataFail ==
    /\ repo_pc = "idle"
    /\ data_file.state # "ok"
    /\ data' = <<>>
    /\ resolved' = <<>>
    /\ list_log' = <<>>
    /\ metadata' = <<>>
    /\ fetch_log' = <<>>
    /\ wrote' = FALSE
    /\ run_stable' = stable
    /\ last_exit' = "1"
    /\ repo_pc' = "exited"
    /\ UNCHANGED <<data_file, upstream, stable>>

\* require_token exits (lines 40-48): GITHUB_TOKEN is not set
RequireTokenFail ==
    /\ repo_pc = "idle"
    /\ data_file.state = "ok"
    /\ data' = data_file.doc
    /\ resolved' = <<>>
    /\ list_log' = <<>>
    /\ metadata' = <<>>
    /\ fetch_log' = <<>>
    /\ wrote' = FALSE
    /\ run_stable' = stable
    /\ last_exit' = "1"
    /\ repo_pc' = "exited"
    /\ UNCHANGED <<data_file, upstream, stable>>

\* main, lines 171-175, and resolve_repositories, lines 152-156
StartRun ==
    /\ repo_pc = "idle"
    /\ data_file.state = "ok"
    /\ data' = data_file.doc
    /\ resolved' = ManualRepos(data_file.doc)
    /\ list_log' = <<>>
    /\ metadata' = <<>>
    /\ fetch_log' = <<>>
    /\ wrote' = FALSE
    /\ run_stable' = stable
    /\ last_exit' = "none"
    /\ repo_pc' = "resolve"
    /\ UNCHANGED <<data_file, upstream, stable>>

\* the user resolve_repositories lists next
NextUser == Users(data)[Len(list_log) + 1]

\* one iteration of the loop of lines 157-162: the listing succeeds
ListUserOk ==
    /\ repo_pc = "resolve"
    /\ Len(list_log) < Len(Users(data))
    /\ LET r == fetch_user_repositories(NextUser, upstream.listings)
       IN  /\ r.ok
           /\ resolved' = AddUnseen(resolved, r.slugs)
           /\ list_log' = Append(list_log, [user |-> NextUser, ok |-> TRUE,
                                            printed |-> r.printed, slugs |-> r.slugs])
    /\ UNCHANGED <<repo_pc, data_file, upstream, data, metadata, fetch_log,
                   last_exit, wrote, stable, run_stable>>

\* lines 163-165: the listing raises, the run exits
ListUserFail ==
    /\ repo_pc = "resolve"
    /\ Len(list_log) < Len(Users(data))
    /\ LET r == fetch_user_repositories(NextUser, upstream.listings)
       IN  /\ ~r.ok
           /\ list_log' = Append(list_log, [user |-> NextUser, ok |-> FALSE,
                                            printed |-> FALSE, slugs |-> <<>>])
    /\ last_exit' = "1"
    /\ repo_pc' = "exited"
    /\ UNCHANGED <<data_file, upstream, data, resolved, metadata, fetch_log,
                   wrote, stable, run_stable>>

\* a run that goes on with an empty list
NoRepositoriesGoOn ==
    /\ repo_pc = "resolve"
    /\ Len(list_log) = Len(Users(data))
    /\ resolved = <<>>
    /\ repo_pc' = "fetch"
    /\ UNCHANGED <<data_file, upstream, data, resolved, list_log, metadata,
                   fetch_log, last_exit, wrote, stable, run_stable>>

\* main, lines 176-180: nothing resolved, the run returns
NoRepositories ==
    /\ repo_pc = "resolve"
    /\ Len(list_log) = Len(Users(data))
    /\ resolved = <<>>
    /\ last_exit' = "0"
    /\ stable' = TRUE
    /\ repo_pc' = "exited"
    /\ UNCHANGED <<data_file, upstream, data, resolved, list_log, metadata,
                   fetch_log, wrote, run_stable>>

\* main, line 182: resolve_repositories returned a non-empty list
BeginFetch ==
    /\ repo_pc = "resolve"
    /\ Len(list_log) = Len(Users(data))
    /\ resolved # <<>>
    /\ repo_pc' = "fetch"
    /\ UNCHANGED <<data_file, upstream, data, resolved, list_log, metadata,
                   fetch_log, last_exit, wrote, stable, run_stable>>

\* the slug main fetches next
NextSlug == resolved[Len(fetch_log) + 1]

\* one iteration of the loop of lines 183-187: the fetch succeeds
FetchRepoOk ==
    /\ repo_pc = "fetch"
    /\ Len(fetch_log) < Len(resolved)
    /\ LET r == fetch_repo(NextSlug, upstream.repos)
       IN  /\ r.ok
           /\ metadata' = Append(metadata, r.repo)
           /\ fetch_log' = Append(fetch_log, [slug |-> NextSlug, ok |-> TRUE])
    /\ UNCHANGED <<repo_pc, data_file, upstream, data, resolved, list_log,
                   last_exit, wrote, stable, run_stable>>

\* a failing fetch that is skipped
FetchRepoFailSkip ==
    /\ repo_pc = "fetch"
    /\ Len(fetch_log) < Len(resolved)
    /\ ~fetch_repo(NextSlug, upstream.repos).ok
    /\ fetch_log' = Append(fetch_log, [slug |-> NextSlug, ok |-> FALSE])
    /\ UNCHANGED <<repo_pc, data_file, upstream, data, resolved, list_log,
                   metadata, last_exit, wrote, stable, run_stable>>

\* lines 188-190: the fetch raises, the run exits
FetchRepoFail ==
    /\ repo_pc = "fetch"
    /\ Len(fetch_log) < Len(resolved)
    /\ ~fetch_repo(NextSlug, upstream.repos).ok
    /\ fetch_log' = Append(fetch_log, [slug |-> NextSlug, ok |-> FALSE])
    /\ last_exit' = "1"
    /\ repo_pc' = "exited"
    /\ UNCHANGED <<data_file, upstream, data, resolved, list_log, metadata,
                   wrote, stable, run_stable>>

\* main, lines 192-197: nothing changed, the write is skipped
SkipWrite ==
    /\ repo_pc = "fetch"
    /\ Len(fetch_log) = Len(resolved)
    /\ UpToDate(data, metadata, resolved)
    /\ last_exit' = "0"
    /\ stable' = TRUE
    /\ repo_pc' = "exited"
    /\ UNCHANGED <<data_file, upstream, data, resolved, list_log, metadata,
                   fetch_log, wrote, run_stable>>

\* main, lines 199-200: the file is rewritten
WriteData ==
    /\ repo_pc = "fetch"
    /\ Len(fetch_log) = Len(resolved)
    /\ ~UpToDate(data, metadata, resolved)
    /\ data_file' = [state |-> "ok", doc |-> write_data(data, metadata, resolved)]
    /\ wrote' = TRUE
    /\ last_exit' = "0"
    /\ stable' = TRUE
    /\ repo_pc' = "exited"
    /\ UNCHANGED <<upstream, data, resolved, list_log, metadata, fetch_log,
                   run_stable>>

\* the process is gone, and its variables with it
ProcessEnds ==
    /\ repo_pc = "exited"
    /\ repo_pc' = "idle"
    /\ data' = <<>>
    /\ resolved' = <<>>
    /\ list_log' = <<>>
    /\ metadata' = <<>>
    /\ fetch_log' = <<>>
    /\ last_exit' = "none"
    /\ wrote' = FALSE
    /\ run_stable' = FALSE
    /\ UNCHANGED <<data_file, upstream, stable>>

\* between two runs a user's repository list changes upstream
ListingChanges ==
    /\ repo_pc = "idle"
    /\ \E user \in UserNames : \E l \in ListingsOf(user) \ {upstream.listings[user]} :
          upstream' = [upstream EXCEPT !.listings[user] = l]
    /\ stable' = FALSE
    /\ UNCHANGED <<repo_pc, data_file, data, resolved, list_log, metadata,
                   fetch_log, last_exit, wrote, run_stable>>

\* between two runs a repository changes upstream
RepoChanges ==
    /\ repo_pc = "idle"
    /\ \E n \in FullNames : \E r \in ResponsesOf(n) \ {upstream.repos[n]} :
          upstream' = [upstream EXCEPT !.repos[n] = r]
    /\ stable' = FALSE
    /\ UNCHANGED <<repo_pc, data_file, data, resolved, list_log, metadata,
                   fetch_log, last_exit, wrote, run_stable>>

RepoNext ==
    \/ LoadDataFail /\ UNCHANGED bib_vars
    \/ RequireTokenFail /\ UNCHANGED bib_vars
    \/ StartRun /\ UNCHANGED bib_vars
    \/ ListUserOk /\ UNCHANGED bib_vars
    \/ ListUserFail /\ UNCHANGED bib_vars
    \/ NoRepositories /\ UNCHANGED bib_vars
    \/ BeginFetch /\ UNCHANGED bib_vars
    \/ FetchRepoOk /\ UNCHANGED bib_vars
    \/ FetchRepoFail /\ UNCHANGED bib_vars
    \/ SkipWrite /\ UNCHANGED bib_vars
    \/ WriteData /\ UNCHANGED bib_vars
    \/ ProcessEnds /\ UNCHANGED bib_vars
    \/ ListingChanges /\ UNCHANGED bib_vars
    \/ RepoChanges /\ UNCHANGED bib_vars

-----------------------------------------------------------------------------
(* Specifications *)

\* the bibliography sync never started, no manual overrides file
BibIdle ==
    /\ manual_file = [exists |-> FALSE, text |-> <<>>]
    /\ BibInit

\* the repository sync never started, no data file
RepoIdle ==
    /\ data_file = [state |-> "missing", doc |-> <<>>]
    /\ upstream = [listings |-> [user \in UserNames |-> <<>>],
                   repos |-> [n \in FullNames |-> Fail(404)]]
    /\ RepoInit

\* the bibliography sync alone, one run
InitBibSync == BibInit /\ RepoIdle

SpecBib == InitBibSync /\ [][BibNext]_vars

\* the repository sync alone, run any number of times
InitRepoSync == RepoInit /\ BibIdle

SpecRepo == InitRepoSync /\ [][RepoNext]_vars

-----------------------------------------------------------------------------
(* Properties of the bibliography sync *)

\* the base key of the i-th publication processed by build_bibtex_entry
BaseOf(i) == BaseKey(publications[i])

\* how many of the first i publications processed share the base of the i-th
RankInBase(i) == Cardinality({j \in 1..i : BaseOf(j) = BaseOf(i)})

\* base, base-2, base-3, ...: the key of the n-th record of a base
NthKey(base, n) == IF n = 1 THEN base ELSE base \o <<"-">> \o IntToStr(n)

\* C1: in one run the citation keys assigned by build_bibtex_entry through the
\* shared existing_keys list are pairwise distinct, whatever the base keys
\* are, and existing_keys lists exactly the keys assigned so far.
C1_KeysDistinct ==
    /\ Len(existing_keys) = Len(auto_entries)
    /\ \A i \in 1..Len(auto_entries) : existing_keys[i] = auto_entries[i].key
    /\ \A i, j \in 1..Len(auto_entries) :
          i # j => auto_entries[i].key # auto_entries[j].key

\* C1 witness: three keys were assigned, two of the publications share a base
\* and a third one has that base followed by "-2" as its own base.
C1_Witness ==
    /\ Len(auto_entries) = 3
    /\ \E i, j, k \in 1..3 :
          /\ i # j
          /\ BaseOf(i) = BaseOf(j)
          /\ BaseOf(k) = BaseOf(i) \o <<"-", "2">>

\* C2 as stated: the n-th publication processed with a given base gets the
\* base itself (n = 1) or base-n, whatever came before or between.
C2_NthGetsSuffixN ==
    \A i \in 1..Len(auto_entries) :
        auto_entries[i].key = NthKey(BaseOf(i), RankInBase(i))

\* none of base, base-2, ..., base-n went to an earlier record of another base
NoForeignClaim(i) ==
    \A j \in 1..(i - 1) :
        BaseOf(j) # BaseOf(i) =>
            \A n \in 1..RankInBase(i) : auto_entries[j].key # NthKey(BaseOf(i), n)

\* C2 amended: the n-th publication processed with a given base gets the base
\* itself (n = 1) or base-n, provided none of the keys base, base-2, ...,
\* base-n was assigned to an earlier publication whose base is different.
C2_NthGetsSuffixNUnlessTaken ==
    \A i \in 1..Len(auto_entries) :
        NoForeignClaim(i) => auto_entries[i].key = NthKey(BaseOf(i), RankInBase(i))

\* C2 witness: after a publication of another base, the second publication
\* of a base got base-2.
C2_Witness ==
    \E i \in 1..Len(auto_entries) :
        /\ i = 3
        /\ BaseOf(2) = BaseOf(3)
        /\ BaseOf(1) # BaseOf(3)
        /\ NoForeignClaim(i)
        /\ auto_entries[i].key = BaseOf(i) \o <<"-", "2">>

\* the keys of a list of entries without those of a set, in order
RECURSIVE KeysOutside(_, _)
KeysOutside(entries, keys) ==
    IF entries = <<>> THEN <<>>
    ELSE (IF Head(entries).key \in keys THEN <<>> ELSE <<Head(entries)>>)
         \o KeysOutside(Tail(entries), keys)

\* C3: after the merge every auto-generated entry whose key is a manual
\* override key is absent from the written entries, the others are written
\* in their original order, the skipped count is the number of dropped
\* entries, and no written entry carries a manual override key.
C3_ManualKeysSuppress ==
    bib_pc = "exit0" =>
        /\ biblio_file.exists
        /\ biblio_file.entries =
              KeysOutside([i \in 1..Len(auto_entries) |-> auto_entries[i].entry],
                          manual_keys)
        /\ skipped = Cardinality({i \in 1..Len(auto_entries) :
                                     auto_entries[i].key \in manual_keys})
        /\ \A i \in 1..Len(biblio_file.entries) :
              biblio_file.entries[i].key \notin manual_keys

\* C3 witness: a run that dropped one entry and wrote two others.
C3_Witness ==
    /\ bib_pc = "exit0"
    /\ skipped = 1
    /\ Len(biblio_file.entries) = 2

\* the stubs whose fill succeeded, in profile order
RECURSIVE Succeeded(_, _)
Succeeded(stubs, oks) ==
    IF oks = <<>> THEN <<>>
    ELSE (IF Head(oks) THEN <<Head(stubs)>> ELSE <<>>) \o Succeeded(Tail(stubs), Tail(oks))

\* C6 as stated: once the profile is retrieved the run exits with status 1
\* only when the profile has no publications.
C6_ExitOnlyOnEmptyProfile ==
    (profile_ok /\ bib_pc = "exit1") => author_pubs = <<>>

\* C6 amended: once the profile is retrieved a failing detail fetch does not
\* end the run, the list built is exactly the publications whose fetch
\* succeeded, in profile order, so far; it is what fetch_publications returns,
\* and the run exits with status 1 only when the loop is over and no detail
\* fetch succeeded (the profile lists nothing, or every fetch failed).
C6_SoftFailures ==
    profile_ok =>
        /\ fetched = Succeeded(author_pubs, fill_ok)
        /\ bib_pc = "exit1" =>
              /\ Len(fill_ok) = Len(author_pubs)
              /\ \A i \in 1..Len(fill_ok) : ~fill_ok[i]
        /\ bib_pc \in {"merge", "build", "exit0"} =>
              /\ Len(fill_ok) = Len(author_pubs)
              /\ \E i \in 1..Len(fill_ok) : fill_ok[i]

\* C6 witness: a run completed although a detail fetch failed before a later
\* one succeeded.
C6_Witness ==
    /\ bib_pc = "exit0"
    /\ \E i, j \in 1..Len(fill_ok) : i < j /\ ~fill_ok[i] /\ fill_ok[j]
    /\ Len(fetched) = 2

HasField(entry, name) == \E i \in 1..Len(entry.fields) : entry.fields[i][1] = name

\* the entry type the rule of the specification gives a publication
TypeByRule(pub) ==
    CASE pub.journal # <<>> -> "article"
      [] pub.journal = <<>> /\ pub.booktitle # <<>> -> "inproceedings"
      [] pub.journal = <<>> /\ pub.booktitle = <<>>
            /\ \E i \in 1..Len(pub.citation) :
                  OccursAt(<<"t","h","e","s","i","s">>, LowerStr(pub.citation), i)
            -> "phdthesis"
      [] OTHER -> "misc"

\* C7: an entry is an article when journal is non-empty, else inproceedings
\* when booktitle is non-empty, else phdthesis when the citation contains
\* "thesis" in any case, else misc; an article has no booktitle field, an
\* inproceedings no journal field, and no entry has both.
C7_EntryTypeAndFields ==
    \A i \in 1..Len(auto_entries) :
        LET e == auto_entries[i].entry
        IN  /\ e.type = TypeByRule(publications[i])
            /\ e.type = "article" => ~HasField(e, "booktitle")
            /\ e.type = "inproceedings" => ~HasField(e, "journal")
            /\ ~(HasField(e, "journal") /\ HasField(e, "booktitle"))

\* C7 witness: an article built from a publication that has a booktitle too,
\* next to an inproceedings and a phdthesis.
C7_Witness ==
    /\ \E i \in 1..Len(auto_entries) :
          /\ auto_entries[i].entry.type = "article"
          /\ publications[i].booktitle # <<>>
          /\ HasField(auto_entries[i].entry, "journal")
    /\ \E i \in 1..Len(auto_entries) : auto_entries[i].entry.type = "inproceedings"
    /\ \E i \in 1..Len(auto_entries) : auto_entries[i].entry.type = "phdthesis"

-----------------------------------------------------------------------------
(* Properties of the repository sync *)

\* the run is over and its exit status set
RunOver == repo_pc = "exited"

\* the stored value of a key equals a list (None, for a missing key, does not)
Stored(doc, key, value) == Has(doc, key) /\ Get(doc, key) = value

\* every call but the last of a log succeeded
OnlyLastMayFail(log) == \A i \in 1..(Len(log) - 1) : log[i].ok

LastFailed(log) == log # <<>> /\ ~log[Len(log)].ok

\* C4: a run that starts after a completed run, upstream being as it was for
\* that run, writes nothing and meets no error, and a run writes only when the computed
\* metadata list or the resolved slug list differs from the stored one.
C4_Idempotent ==
    /\ (RunOver /\ run_stable) =>
          /\ ~wrote
          /\ data_file.doc = data
          /\ ~LastFailed(list_log)
          /\ ~LastFailed(fetch_log)
    /\ wrote => ~(/\ Stored(data, "github_repos_metadata", metadata)
                  /\ Stored(data, "github_repos", resolved))

\* C4 witness: a second run over unchanged upstream data fetched two
\* repositories and left the file, written by an earlier run, alone.
C4_Witness ==
    /\ RunOver
    /\ run_stable
    /\ ~wrote
    /\ Len(metadata) = 2
    /\ Stored(data_file.doc, "github_repos_metadata", metadata)

\* C5: a listing or a fetch that raises is the last call of the run: the run
\* is over with exit status 1, fetched no slug after it and wrote nothing;
\* and a run that writes has fetched every resolved slug.
C5_FirstErrorAborts ==
    /\ OnlyLastMayFail(list_log)
    /\ OnlyLastMayFail(fetch_log)
    /\ Len(fetch_log) <= Len(resolved)
    /\ \A i \in 1..Len(fetch_log) : fetch_log[i].slug = resolved[i]
    /\ LastFailed(list_log) => fetch_log = <<>>
    /\ (LastFailed(list_log) \/ LastFailed(fetch_log)) =>
          /\ RunOver
          /\ last_exit = "1"
          /\ ~wrote
          /\ data_file.doc = data
    /\ wrote =>
          /\ Len(metadata) = Len(resolved)
          /\ Get(data_file.doc, "github_repos") = resolved
          /\ Len(Get(data_file.doc, "github_repos_metadata")) = Len(resolved)
          /\ \A i \in 1..Len(resolved) :
                Get(data_file.doc, "github_repos_metadata")[i].slug = Strip(resolved[i])

\* C5 witness: the second of three resolved slugs failed after the first was
\* fetched, in a run whose stored metadata list was not empty.
C5_Witness ==
    /\ RunOver
    /\ Len(resolved) = 3
    /\ Len(fetch_log) = 2
    /\ fetch_log[1].ok
    /\ ~fetch_log[2].ok
    /\ Len(metadata) = 1
    /\ Has(data, "github_repos_metadata")
    /\ Get(data, "github_repos_metadata") # <<>>

OutputOrder == <<"github_users", "repo_description_lines_max", "github_repos",
                 "github_repos_metadata">>

\* the keys of a document that are not in OutputOrder, in their order
RECURSIVE OtherKeys(_)
OtherKeys(doc) ==
    IF doc = <<>> THEN <<>>
    ELSE (IF Head(doc)[1] \in Range(OutputOrder) THEN <<>> ELSE <<Head(doc)[1]>>)
         \o OtherKeys(Tail(doc))

\* C8: a write keeps the value of every key of the loaded document other
\* than github_repos and github_repos_metadata, puts the four managed keys
\* first in their fixed order and the other keys after them in their
\* original order, none lost, none twice.
C8_WriteKeepsOtherKeys ==
    wrote =>
        /\ \A i \in 1..Len(data) :
              data[i][1] \notin {"github_repos", "github_repos_metadata"} =>
                  Stored(data_file.doc, data[i][1], data[i][2])
        /\ Keys(data_file.doc) = OutputOrder \o OtherKeys(data)
        /\ \A i, j \in 1..Len(data_file.doc) :
              i # j => data_file.doc[i][1] # data_file.doc[j][1]

\* C8 witness: a write of a document that had two keys of its own, one of
\* them before github_users, and no repo_description_lines_max.
C8_Witness ==
    /\ wrote
    /\ Len(OtherKeys(data)) = 2
    /\ data[1][1] = "title"
    /\ ~Has(data, "repo_description_lines_max")
    /\ Len(data_file.doc) = 6

\* the run listed an account and found it without repositories
ListedEmpty(i) == list_log[i].ok /\ list_log[i].printed /\ list_log[i].slugs = <<>>

\* C9 as stated: a run that listed an account without repositories ends
\* with exit status 0 and the file unchanged.
C9_EmptyAccountNoChange ==
    (RunOver /\ \E i \in 1..Len(list_log) : ListedEmpty(i)) =>
        (last_exit = "0" /\ ~wrote /\ data_file.doc = data)

\* C9 amended: a run reports 0 discovered repos for a listed account whose
\* listing is empty; when no slug at all is resolved, the stored github_repos
\* having no non-empty slug and every configured account listing nothing,
\* the run ends with exit status 0 and the file unchanged.
C9_NothingResolvedNoChange ==
    /\ \A i \in 1..Len(list_log) :
          (list_log[i].ok /\ Strip(list_log[i].user) # <<>>) => list_log[i].printed
    /\ ( /\ RunOver
         /\ \E i \in 1..Len(list_log) : ListedEmpty(i)
         /\ Len(list_log) = Len(Users(data))
         /\ \A i \in 1..Len(list_log) : list_log[i].ok /\ list_log[i].slugs = <<>>
         /\ \A i \in 1..Len(GetOr(data, "github_repos", <<>>)) :
               Get(data, "github_repos")[i] = <<>> )
       => (last_exit = "0" /\ ~wrote /\ data_file.doc = data)

\* C9 witness: two accounts without repositories, nothing else resolved, a
\* stored list that is missing: the run is over with status 0 and no write.
C9_Witness ==
    /\ RunOver
    /\ Len(list_log) = 2
    /\ ListedEmpty(1)
    /\ ListedEmpty(2)
    /\ ~Has(data, "github_repos")
    /\ last_exit = "0"
    /\ ~wrote

IsPrefix(s, t) == Len(s) <= Len(t) /\ SubSeq(t, 1, Len(s)) = s

StoredRepos(file) == GetOr(file.doc, "github_repos", <<>>)

NonEmptySlugs(list) ==
    LET NonEmpty(slug) == slug # <<>>
    IN  SelectSeq(list, NonEmpty)

\* C10: whenever the file changes, the non-empty slugs of the stored
\* github_repos list, in their order, are a prefix of the new list, and the
\* slugs after that prefix are new and appear once.
C10_ReposOnlyGrow ==
    [][data_file' # data_file =>
          LET old == NonEmptySlugs(StoredRepos(data_file))
              new == StoredRepos(data_file')
          IN  /\ IsPrefix(old, new)
              /\ \A i \in (Len(old) + 1)..Len(new) :
                    \A j \in 1..Len(new) : i # j => new[i] # new[j]]_vars

\* C10 witness: a write kept a slug, found by an earlier run, that no
\* account lists any more, and added a new one after it.
C10_Witness ==
    /\ wrote
    /\ Has(data, "github_repos_metadata")
    /\ Users(data) = <<UserU>>
    /\ Get(data, "repo_description_lines_max") = 3
    /\ Len(Get(data, "github_repos")) = 1
    /\ Len(resolved) = 2
    /\ \A i \in 1..Len(list_log) : Get(data, "github_repos")[1] \notin Range(list_log[i].slugs)

=============================================================================
